---- MODULE Spec2Model ----
(***************************************************************************)
(* Windows Defender check plugin for Checkmk.                              *)
(*                                                                         *)
(* The model follows the two plugins of the repository:                    *)
(*   plugins/windows_defender/agent_based/windows_defender.py (Check API   *)
(*   v2) and agent_based/windows_defender.py (the legacy plugin).          *)
(*                                                                         *)
(* Strings are sequences of tokens.  A token is a record [k, v]: a decimal *)
(* numeral (k = "num", v its value) or any other lexeme (k = "sym", v its  *)
(* text: a separator character, a blank, a word).  Splitting, joining,     *)
(* stripping and strptime are computed on these sequences.                 *)
(* Python's None is the empty tuple <<>>, a present value x is <<x>>.      *)
(* Local time is UTC, so time.mktime is the proleptic Gregorian count of   *)
(* seconds since 1970-01-01.  The evaluation time is a whole second.       *)
(***************************************************************************)
EXTENDS Integers, Sequences, FiniteSets, TLC

(* ---------------------------------------------------------------------- *)
(* Strings                                                                 *)
(* ---------------------------------------------------------------------- *)

N(n) == [k |-> "num", v |-> n]
S(c) == [k |-> "sym", v |-> c]

IsNum(t) == t.k = "num"
IsSym(t, c) == t.k = "sym" /\ t.v = c
IsSpace(t) == IsSym(t, " ")

None == << >>
Some(x) == << x >>

RECURSIVE LStrip(_)
LStrip(s) ==
    IF s # << >> /\ IsSpace(Head(s)) THEN LStrip(Tail(s)) ELSE s

RECURSIVE RStrip(_)
RStrip(s) ==
    IF s # << >> /\ IsSpace(s[Len(s)]) THEN RStrip(SubSeq(s, 1, Len(s) - 1)) ELSE s

\* str.strip()
Strip(s) == RStrip(LStrip(s))

\* sep.join(fields)
RECURSIVE Join(_, _)
Join(sep, fields) ==
    IF fields = << >> THEN << >>
    ELSE IF Len(fields) = 1 THEN fields[1]
    ELSE fields[1] \o << S(sep) >> \o Join(sep, Tail(fields))

\* line.split(sep): what the agent section header sep(58) makes of a line
RECURSIVE SplitFrom(_, _, _)
SplitFrom(sep, s, cur) ==
    IF s = << >> THEN << cur >>
    ELSE IF IsSym(Head(s), sep) THEN << cur >> \o SplitFrom(sep, Tail(s), << >>)
    ELSE SplitFrom(sep, Tail(s), Append(cur, Head(s)))

Split(sep, s) == SplitFrom(sep, s, << >>)

(* ---------------------------------------------------------------------- *)
(* time.strptime and time.mktime                                           *)
(* ---------------------------------------------------------------------- *)

IsLeap(y) == (y % 4 = 0 /\ y % 100 # 0) \/ y % 400 = 0

DaysInMonth(y, m) ==
    IF m = 2 THEN (IF IsLeap(y) THEN 29 ELSE 28)
    ELSE IF m \in {4, 6, 9, 11} THEN 30
    ELSE 31

\* days between 1970-01-01 and the civil date y-m-d
DaysFromCivil(y, m, d) ==
    LET yy  == IF m <= 2 THEN y - 1 ELSE y
        era == yy \div 400
        yoe == yy - era * 400
        mp  == IF m > 2 THEN m - 3 ELSE m + 9
        doy == (153 * mp + 2) \div 5 + d - 1
        doe == yoe * 365 + yoe \div 4 - yoe \div 100 + doy
    IN  era * 146097 + doe - 719468

\* time.mktime(struct_time), local time being UTC
Mktime(t) ==
    DaysFromCivil(t.year, t.month, t.day) * 86400
        + t.hour * 3600 + t.minute * 60 + t.second

\* does token t match the format element f (a directive or a literal)?
TokenMatches(t, f) ==
    CASE f = "%d" -> IsNum(t) /\ t.v \in 1..31
      [] f = "%m" -> IsNum(t) /\ t.v \in 1..12
      [] f = "%Y" -> IsNum(t) /\ t.v \in 1000..9999
      [] f = "%H" -> IsNum(t) /\ t.v \in 0..23
      [] f = "%I" -> IsNum(t) /\ t.v \in 1..12
      [] f = "%M" -> IsNum(t) /\ t.v \in 0..59
      [] f = "%S" -> IsNum(t) /\ t.v \in 0..61
      [] f = "%p" -> t.k = "sym" /\ t.v \in {"AM", "PM", "am", "pm"}
      [] OTHER    -> IsSym(t, f)

\* the token the directive d of fmt stands on
Field(s, fmt, d) == s[CHOOSE i \in 1..Len(fmt) : fmt[i] = d]

HasDirective(fmt, d) == \E i \in 1..Len(fmt) : fmt[i] = d

\* time.strptime(s, fmt): Some(struct_time), or None where Python raises
\* ValueError (no match, unconverted data, day out of range for month)
StrpTime(s, fmt) ==
    IF Len(s) # Len(fmt) \/ \E i \in 1..Len(fmt) : ~TokenMatches(s[i], fmt[i])
    THEN None
    ELSE
        LET year  == Field(s, fmt, "%Y").v
            month == Field(s, fmt, "%m").v
            day   == Field(s, fmt, "%d").v
            hour  == IF HasDirective(fmt, "%I")
                     THEN LET h12 == Field(s, fmt, "%I").v
                              pm  == Field(s, fmt, "%p").v \in {"PM", "pm"}
                          IN  IF pm THEN (IF h12 = 12 THEN 12 ELSE h12 + 12)
                              ELSE (IF h12 = 12 THEN 0 ELSE h12)
                     ELSE Field(s, fmt, "%H").v
        IN  IF day > DaysInMonth(year, month) THEN None
            ELSE Some([year |-> year, month |-> month, day |-> day,
                       hour |-> hour,
                       minute |-> Field(s, fmt, "%M").v,
                       second |-> Field(s, fmt, "%S").v])

(* ---------------------------------------------------------------------- *)
(* Date formats and _parse_timestamp                                       *)
(* ---------------------------------------------------------------------- *)

FmtUsAmPm  == << "%m", "/", "%d", "/", "%Y", " ", "%I", ":", "%M", ":", "%S", " ", "%p" >>
FmtUs24    == << "%m", "/", "%d", "/", "%Y", " ", "%H", ":", "%M", ":", "%S" >>
FmtEuDot   == << "%d", ".", "%m", ".", "%Y", " ", "%H", ":", "%M", ":", "%S" >>
FmtEuSlash == << "%d", "/", "%m", "/", "%Y", " ", "%H", ":", "%M", ":", "%S" >>
FmtEuAmPm  == << "%d", "/", "%m", "/", "%Y", " ", "%I", ":", "%M", ":", "%S", " ", "%p" >>
FmtIso     == << "%Y", "-", "%m", "-", "%d", " ", "%H", ":", "%M", ":", "%S" >>
FmtIsoT    == << "%Y", "-", "%m", "-", "%d", "T", "%H", ":", "%M", ":", "%S" >>

\* the eu candidates with the two AM/PM layouts in each other's place
DATE_FORMAT_CONFIGS_Reordered ==
    [ us  |-> << FmtUsAmPm, FmtUs24 >>,
      eu  |-> << FmtEuDot, FmtEuAmPm, FmtEuSlash, FmtUsAmPm >>,
      iso |-> << FmtIso, FmtIsoT >> ]

DATE_FORMAT_CONFIGS ==
    [ us  |-> << FmtUsAmPm, FmtUs24 >>,
      eu  |-> << FmtEuDot, FmtUsAmPm, FmtEuSlash, FmtEuAmPm >>,
      iso |-> << FmtIso, FmtIsoT >> ]

\* the sanity check with the boundary excluded
AgeAccepted_Strict(age) == age > -86400

\* the sanity check of one candidate: not more than a day in the future
AgeAccepted(age) == age >= -86400

\* the loop over formats_to_try reporting no age below zero
RECURSIVE TryFormats_Clamped(_, _, _, _)
TryFormats_Clamped(s, now, formats_to_try, i) ==
    IF i > Len(formats_to_try) THEN None
    ELSE LET t == StrpTime(s, formats_to_try[i])
         IN  IF t # None /\ now - Mktime(t[1]) >= -86400
             THEN Some(IF now - Mktime(t[1]) < 0 THEN 0 ELSE now - Mktime(t[1]))
             ELSE TryFormats_Clamped(s, now, formats_to_try, i + 1)

\* the loop over formats_to_try ended by the first candidate that parses,
\* with no age when that candidate reads a time too far ahead
RECURSIVE TryFormats_GiveUp(_, _, _, _)
TryFormats_GiveUp(s, now, formats_to_try, i) ==
    IF i > Len(formats_to_try) THEN None
    ELSE LET t == StrpTime(s, formats_to_try[i])
         IN  IF t # None
             THEN (IF AgeAccepted(now - Mktime(t[1])) THEN Some(now - Mktime(t[1])) ELSE None)
             ELSE TryFormats_GiveUp(s, now, formats_to_try, i + 1)

\* the loop over formats_to_try, from candidate i on
RECURSIVE TryFormats(_, _, _, _)
TryFormats(s, now, formats_to_try, i) ==
    IF i > Len(formats_to_try) THEN None
    ELSE LET t == StrpTime(s, formats_to_try[i])
         IN  IF t # None /\ AgeAccepted(now - Mktime(t[1]))
             THEN Some(now - Mktime(t[1]))
             ELSE TryFormats(s, now, formats_to_try, i + 1)

\* _parse_timestamp(timestamp_str, now, date_format): Some(age) or None.
\* timestamp_str is None or Some(string)
ParseTimestamp(timestamp_str, now, date_format) ==
    IF timestamp_str = None \/ timestamp_str[1] = << >> THEN None
    ELSE TryFormats(Strip(timestamp_str[1]), now,
                    IF date_format \in DOMAIN DATE_FORMAT_CONFIGS
                    THEN DATE_FORMAT_CONFIGS[date_format]
                    ELSE DATE_FORMAT_CONFIGS["eu"],
                    1)

(* ---------------------------------------------------------------------- *)
(* Section parser (Check API v2 plugin)                                    *)
(* ---------------------------------------------------------------------- *)

\* the string holding the single word w
K(w) == << S(w) >>

\* every value other than "True" taken as false
ParseBool_Lenient(value) ==
    IF value = K("True") THEN Some(TRUE) ELSE Some(FALSE)

\* _parse_bool(value)
ParseBool(value) ==
    IF value = K("True") THEN Some(TRUE)
    ELSE IF value = K("False") THEN Some(FALSE)
    ELSE None

\* a key that is already set keeps its value
DictSet_KeepFirst(d, key, value) ==
    [x \in DOMAIN d \cup {key} |-> IF x \in DOMAIN d THEN d[x] ELSE value]

\* raw[key] = value
DictSet(d, key, value) ==
    [x \in DOMAIN d \cup {key} |-> IF x = key THEN value ELSE d[x]]

\* raw.get(key)
DictGet(d, key) == IF K(key) \in DOMAIN d THEN Some(d[K(key)]) ELSE None

\* raw.get(key, default)
DictGetDefault(d, key, default) == IF K(key) \in DOMAIN d THEN d[K(key)] ELSE default

\* the loop taking the second field of a line as its value
RECURSIVE BuildRaw_SecondField(_, _, _)
BuildRaw_SecondField(string_table, i, raw) ==
    IF i > Len(string_table) THEN raw
    ELSE LET line == string_table[i]
         IN  IF Len(line) >= 2
             THEN BuildRaw_SecondField(string_table, i + 1,
                                       DictSet(raw, Strip(line[1]), Strip(line[2])))
             ELSE BuildRaw_SecondField(string_table, i + 1, raw)

\* the loop building raw from the lines of string_table, from line i on
RECURSIVE BuildRaw(_, _, _)
BuildRaw(string_table, i, raw) ==
    IF i > Len(string_table) THEN raw
    ELSE LET line == string_table[i]
         IN  IF Len(line) >= 2
             THEN BuildRaw(string_table, i + 1,
                           DictSet(raw, Strip(line[1]), Strip(Join(":", Tail(line)))))
             ELSE BuildRaw(string_table, i + 1, raw)

EmptyDict == [x \in {} |-> << >>]

\* WindowsDefenderSection(...) built from raw
SectionOf(raw) ==
    [ am_engine_version |-> DictGet(raw, "AMEngineVersion"),
      am_product_version |-> DictGet(raw, "AMProductVersion"),
      am_service_version |-> DictGet(raw, "AMServiceVersion"),
      nis_engine_version |-> DictGet(raw, "NISEngineVersion"),
      antispyware_signature_version |-> DictGet(raw, "AntispywareSignatureVersion"),
      antivirus_signature_version |-> DictGet(raw, "AntivirusSignatureVersion"),
      nis_signature_version |-> DictGet(raw, "NISSignatureVersion"),
      antispyware_signature_last_updated |-> DictGet(raw, "AntispywareSignatureLastUpdated"),
      antivirus_signature_last_updated |-> DictGet(raw, "AntivirusSignatureLastUpdated"),
      nis_signature_last_updated |-> DictGet(raw, "NISSignatureLastUpdated"),
      full_scan_end_time |-> DictGet(raw, "FullScanEndTime"),
      quick_scan_end_time |-> DictGet(raw, "QuickScanEndTime"),
      am_service_enabled |-> ParseBool(DictGetDefault(raw, "AMServiceEnabled", << >>)),
      behavior_monitor_enabled |-> ParseBool(DictGetDefault(raw, "BehaviorMonitorEnabled", << >>)),
      antispyware_enabled |-> ParseBool(DictGetDefault(raw, "AntispywareEnabled", << >>)),
      antivirus_enabled |-> ParseBool(DictGetDefault(raw, "AntivirusEnabled", << >>)),
      nis_enabled |-> ParseBool(DictGetDefault(raw, "NISEnabled", << >>)),
      realtime_protection_enabled |-> ParseBool(DictGetDefault(raw, "RealTimeProtectionEnabled", << >>)),
      onaccess_protection_enabled |-> ParseBool(DictGetDefault(raw, "OnAccessProtectionEnabled", << >>)),
      am_running_mode |-> DictGet(raw, "AMRunningMode"),
      computer_state |-> DictGet(raw, "ComputerState"),
      is_tamper_protected |-> ParseBool(DictGetDefault(raw, "IsTamperProtected", << >>)),
      is_virtual_machine |-> ParseBool(DictGetDefault(raw, "IsVirtualMachine", << >>)) ]

\* a snapshot returned for every table that is not empty
ParseWindowsDefender_AnyLines(string_table) ==
    IF string_table = << >> THEN None
    ELSE Some(SectionOf(BuildRaw(string_table, 1, EmptyDict)))

\* parse_windows_defender(string_table): Some(section) or None
ParseWindowsDefender(string_table) ==
    IF string_table = << >> THEN None
    ELSE LET raw == BuildRaw(string_table, 1, EmptyDict)
         IN  IF DOMAIN raw = {} THEN None ELSE Some(SectionOf(raw))

(* ---------------------------------------------------------------------- *)
(* Findings, render.timespan and check_levels                              *)
(* ---------------------------------------------------------------------- *)

\* Result(state=..., summary=...)
Result(state, summary) ==
    [ type |-> "Result", state |-> state, summary |-> summary, notice |-> << >>,
      name |-> "", value |-> 0, levels |-> None ]

\* Result(state=..., notice=...)
Notice(state, notice) ==
    [ type |-> "Result", state |-> state, summary |-> << >>, notice |-> notice,
      name |-> "", value |-> 0, levels |-> None ]

\* Metric(name, value, levels=...)
Metric(name, value, levels) ==
    [ type |-> "Metric", state |-> "", summary |-> << >>, notice |-> << >>,
      name |-> name, value |-> value, levels |-> levels ]

TIME_UNITS ==
    << << "years", "year", 31536000 >>, << "days", "day", 86400 >>,
       << "hours", "hour", 3600 >>, << "minutes", "minute", 60 >>,
       << "seconds", "second", 1 >> >>

\* one chunk "<count> <unit>" of a rendered time span
TimespanChunk(count, unit) ==
    << N(count), S(" "), S(IF count = 1 THEN unit[2] ELSE unit[1]) >>

\* render.timespan(seconds) of whole seconds: the two leading units
Timespan(seconds) ==
    LET a     == IF seconds < 0 THEN -seconds ELSE seconds
        start == IF \E i \in 1..Len(TIME_UNITS) : a >= TIME_UNITS[i][3]
                 THEN CHOOSE i \in 1..Len(TIME_UNITS) :
                          /\ a >= TIME_UNITS[i][3]
                          /\ \A j \in 1..(i - 1) : a < TIME_UNITS[j][3]
                 ELSE Len(TIME_UNITS)
        first == TimespanChunk(a \div TIME_UNITS[start][3], TIME_UNITS[start])
        rest  == a % TIME_UNITS[start][3]
        both  == IF start = Len(TIME_UNITS) THEN first
                 ELSE first \o << S(" ") >>
                      \o TimespanChunk(rest \div TIME_UNITS[start + 1][3],
                                       TIME_UNITS[start + 1])
    IN  IF seconds < 0 THEN << S("-") >> \o both ELSE both

\* the state check_levels gives a value under upper levels:
\* levels is None, ("no_levels", None) or ("fixed", (warn, crit))
LevelsState(value, levels) ==
    IF levels # None /\ levels[1][1] = "fixed"
    THEN LET warn == levels[1][2][1]
             crit == levels[1][2][2]
         IN  IF value >= crit THEN "CRIT"
             ELSE IF value >= warn THEN "WARN"
             ELSE "OK"
    ELSE "OK"

\* check_levels(value, levels_upper=levels, metric_name=..., label=...,
\*              render_func=render.timespan): a Result, then a Metric
CheckLevels(value, levels, metric_name, label) ==
    LET state == LevelsState(value, levels)
        text  == label \o << S(": ") >> \o Timespan(value)
        hint  == IF state = "OK" THEN << >>
                 ELSE << S(" (warn/crit at ") >> \o Timespan(levels[1][2][1])
                      \o << S("/") >> \o Timespan(levels[1][2][2]) \o << S(")") >>
    IN  << Result(state, text \o hint),
           Metric(metric_name, value,
                  IF levels # None /\ levels[1][1] = "fixed"
                  THEN Some(levels[1][2]) ELSE None) >>

(* ---------------------------------------------------------------------- *)
(* Evaluator (Check API v2 plugin)                                         *)
(* ---------------------------------------------------------------------- *)

\* params.get(key)
ParamsGet(params, key) == IF key \in DOMAIN params THEN Some(params[key]) ELSE None

\* params.get(key, default)
ParamsGetDefault(params, key, default) ==
    IF key \in DOMAIN params THEN params[key] ELSE default

\* Python truth of an optional string
Truthy(o) == o # None /\ o[1] # << >>

\* the list signatures of _check_signature_ages
Signatures(section) ==
    << [ param_key |-> "AntispywareSignatureLastUpdated", metric_name |-> "antispyware_sig_age",
         label |-> "AntiSpyware signature",
         timestamp_str |-> section.antispyware_signature_last_updated ],
       [ param_key |-> "AntivirusSignatureLastUpdated", metric_name |-> "antivirus_sig_age",
         label |-> "AntiVirus signature",
         timestamp_str |-> section.antivirus_signature_last_updated ],
       [ param_key |-> "NISSignatureLastUpdated", metric_name |-> "nis_sig_age",
         label |-> "NIS signature",
         timestamp_str |-> section.nis_signature_last_updated ] >>

\* one pass of the signature loop treating a missing age as a scan's is
SignatureAge_Crit(params, sig, now) ==
    LET date_format == ParamsGetDefault(params, "date_format", "eu")
        age == IF Truthy(sig.timestamp_str)
               THEN ParseTimestamp(sig.timestamp_str, now, date_format)
               ELSE None
    IN  IF age = None
        THEN << Result("CRIT", << S("Age of "), S(sig.label), S(" is unknown") >>),
                Metric(sig.metric_name, 0, None) >>
        ELSE CheckLevels(age[1], ParamsGet(params, sig.param_key), sig.metric_name,
                         << S(sig.label), S(" age") >>)

\* one pass of the signature loop passing over a signature without an age
SignatureAge_Skip(params, sig, now) ==
    LET date_format == ParamsGetDefault(params, "date_format", "eu")
        age == IF Truthy(sig.timestamp_str)
               THEN ParseTimestamp(sig.timestamp_str, now, date_format)
               ELSE None
    IN  IF age = None THEN << >>
        ELSE CheckLevels(age[1], ParamsGet(params, sig.param_key), sig.metric_name,
                         << S(sig.label), S(" age") >>)

\* one pass of the loop of _check_signature_ages
SignatureAge(params, sig, now) ==
    LET date_format == ParamsGetDefault(params, "date_format", "eu")
        age == IF Truthy(sig.timestamp_str)
               THEN ParseTimestamp(sig.timestamp_str, now, date_format)
               ELSE None
    IN  IF age = None
        THEN << Result("UNKNOWN", << S("Age of "), S(sig.label), S(" is unknown") >>) >>
        ELSE CheckLevels(age[1], ParamsGet(params, sig.param_key), sig.metric_name,
                         << S(sig.label), S(" age") >>)

\* _check_signature_ages(params, section, now)
CheckSignatureAges(params, section, now) ==
    LET sigs == Signatures(section)
    IN  SignatureAge(params, sigs[1], now) \o SignatureAge(params, sigs[2], now)
            \o SignatureAge(params, sigs[3], now)

\* the list services of _check_service_states
Services(section) ==
    << [ param_key |-> "AMServiceEnabled", description |-> "AM Service",
         current_value |-> section.am_service_enabled ],
       [ param_key |-> "BehaviorMonitorEnabled", description |-> "Behavior Monitor",
         current_value |-> section.behavior_monitor_enabled ],
       [ param_key |-> "AntispywareEnabled", description |-> "Antispyware",
         current_value |-> section.antispyware_enabled ],
       [ param_key |-> "AntivirusEnabled", description |-> "Antivirus",
         current_value |-> section.antivirus_enabled ],
       [ param_key |-> "NISEnabled", description |-> "NIS",
         current_value |-> section.nis_enabled ],
       [ param_key |-> "RealTimeProtectionEnabled", description |-> "RealTimeProtection",
         current_value |-> section.realtime_protection_enabled ],
       [ param_key |-> "OnAccessProtectionEnabled", description |-> "OnAccessProtection",
         current_value |-> section.onaccess_protection_enabled ] >>

\* an unknown service not counted as an issue
IssuesAfterUnknown_Same(issues) == issues

\* issues += 1 after the unknown finding of a service
IssuesAfterUnknown(issues) == issues + 1

\* the two words in each other's place
CurrentStr_Inverted(current_value) == IF current_value THEN "disabled" ELSE "enabled"

\* current_str = "enabled" if current_value else "disabled"
CurrentStr(current_value) == IF current_value THEN "enabled" ELSE "disabled"

\* the aggregate finding yielded whatever the issues
AggregateWanted_Always(issues) == issues >= 0

\* if issues == 0: the aggregate finding is yielded
AggregateWanted(issues) == issues = 0

\* the loop of _check_service_states from service i on; st holds the
\* findings yielded so far, issues and ok_services
RECURSIVE ServiceLoop(_, _, _, _)
ServiceLoop(params, services, i, st) ==
    IF i > Len(services) THEN st
    ELSE
        LET svc == services[i]
            expected == ParamsGetDefault(params, svc.param_key, "enabled")
            current_str == CurrentStr(svc.current_value[1])
        IN  IF svc.current_value = None
            THEN ServiceLoop(params, services, i + 1,
                     [ st EXCEPT
                         !.out = Append(@, Result("UNKNOWN",
                                     << S("service \""), S(svc.description),
                                        S("\" state is unknown") >>)),
                         !.issues = IssuesAfterUnknown(@) ])
            ELSE IF current_str # expected
            THEN ServiceLoop(params, services, i + 1,
                     [ st EXCEPT
                         !.out = Append(@, Result("WARN",
                                     << S("service \""), S(svc.description), S("\" is "),
                                        S(current_str), S(" (expected "), S(expected),
                                        S(")") >>)),
                         !.issues = @ + 1 ])
            ELSE ServiceLoop(params, services, i + 1,
                     [ st EXCEPT !.ok_services = Append(@, svc.description) ])

\* _check_service_states(params, section)
CheckServiceStates(params, section) ==
    LET st == ServiceLoop(params, Services(section), 1,
                          [ out |-> << >>, issues |-> 0, ok_services |-> << >> ])
    IN  IF AggregateWanted(st.issues)
        THEN Append(st.out, Result("OK", << S("All "), N(Len(st.ok_services)),
                                            S(" services in expected state") >>))
        ELSE st.out

\* _extract_levels_tuple(levels): Some((warn, crit)) or None
ExtractLevelsTuple(levels) ==
    IF levels = None THEN None
    ELSE IF levels[1][1] = "fixed" THEN Some(levels[1][2])
    ELSE None

\* the list scans of _check_scan_ages
Scans(section) ==
    << [ param_key |-> "FullScanEndTime", metric_name |-> "full_scan_age",
         label |-> "Full Scan", timestamp_str |-> section.full_scan_end_time ],
       [ param_key |-> "QuickScanEndTime", metric_name |-> "quick_scan_age",
         label |-> "Quick Scan", timestamp_str |-> section.quick_scan_end_time ] >>

\* no scan check is skipped: an unconfigured one runs on the fallback levels
ScanSkipped_Never(levels) == FALSE

\* a scan check skipped also when its entry holds no levels
ScanSkipped_NoLevels(levels) ==
    IF levels = None THEN TRUE ELSE levels[1][1] = "no_levels"

\* is the scan check skipped for these levels?
ScanSkipped(levels) == levels = None

\* one pass of the scan loop treating a missing age as a signature's is
ScanAge_Unknown(params, scan, now) ==
    LET date_format == ParamsGetDefault(params, "date_format", "eu")
        levels == ParamsGet(params, scan.param_key)
        age == IF Truthy(scan.timestamp_str)
               THEN ParseTimestamp(scan.timestamp_str, now, date_format)
               ELSE None
    IN  IF ScanSkipped(levels) THEN << >>
        ELSE IF age = None
        THEN << Result("UNKNOWN", << S(scan.label), S(" has never been executed ") >>) >>
        ELSE CheckLevels(age[1], levels, scan.metric_name,
                         << S("Last "), S(scan.label) >>)

\* one pass of the loop of _check_scan_ages
ScanAge(params, scan, now) ==
    LET date_format == ParamsGetDefault(params, "date_format", "eu")
        levels == ParamsGet(params, scan.param_key)
        age == IF Truthy(scan.timestamp_str)
               THEN ParseTimestamp(scan.timestamp_str, now, date_format)
               ELSE None
        levels_tuple == ExtractLevelsTuple(levels)
        warn == IF levels_tuple # None THEN levels_tuple[1][1] ELSE 7 * 86400
        crit == IF levels_tuple # None THEN levels_tuple[1][2] ELSE 14 * 86400
    IN  IF ScanSkipped(levels) THEN << >>
        ELSE IF age = None
        THEN << Result("CRIT", << S(scan.label), S(" has never been executed "),
                                  S("(warn/crit at ") >> \o Timespan(warn)
                                  \o << S("/") >> \o Timespan(crit) \o << S(")") >>),
                Metric(scan.metric_name, 0, None) >>
        ELSE CheckLevels(age[1], levels, scan.metric_name,
                         << S("Last "), S(scan.label) >>)

\* _check_scan_ages(params, section, now)
CheckScanAges(params, section, now) ==
    LET scans == Scans(section)
    IN  ScanAge(params, scans[1], now) \o ScanAge(params, scans[2], now)

\* ", ".join(parts) and " | ".join(parts) of strings
RECURSIVE JoinText(_, _)
JoinText(sep, parts) ==
    IF parts = << >> THEN << >>
    ELSE IF Len(parts) = 1 THEN parts[1]
    ELSE parts[1] \o << S(sep) >> \o JoinText(sep, Tail(parts))

YesNo(b) == IF b THEN "Yes" ELSE "No"

\* the two notices yielded whether or not their lists are empty
YieldVersionInfo_Always(section) ==
    LET part(prefix, o) == IF Truthy(o) THEN << << S(prefix) >> \o o[1] >> ELSE << >>
        flag(prefix, o) == IF o # None THEN << << S(prefix), S(YesNo(o[1])) >> >> ELSE << >>
        versions == part("AM Engine: ", section.am_engine_version)
                    \o part("AM Product: ", section.am_product_version)
                    \o part("NIS Sig: ", section.nis_signature_version)
                    \o part("AV Sig: ", section.antivirus_signature_version)
                    \o part("AS Sig: ", section.antispyware_signature_version)
        details == part("Running Mode: ", section.am_running_mode)
                   \o flag("Tamper Protected: ", section.is_tamper_protected)
                   \o flag("Virtual Machine: ", section.is_virtual_machine)
    IN  << Notice("OK", << S("Versions - ") >> \o JoinText(", ", versions)),
           Notice("OK", << S("Details - ") >> \o JoinText(" | ", details)) >>

\* _yield_version_info(section)
YieldVersionInfo(section) ==
    LET part(prefix, o) == IF Truthy(o) THEN << << S(prefix) >> \o o[1] >> ELSE << >>
        flag(prefix, o) == IF o # None THEN << << S(prefix), S(YesNo(o[1])) >> >> ELSE << >>
        versions == part("AM Engine: ", section.am_engine_version)
                    \o part("AM Product: ", section.am_product_version)
                    \o part("NIS Sig: ", section.nis_signature_version)
                    \o part("AV Sig: ", section.antivirus_signature_version)
                    \o part("AS Sig: ", section.antispyware_signature_version)
        details == part("Running Mode: ", section.am_running_mode)
                   \o flag("Tamper Protected: ", section.is_tamper_protected)
                   \o flag("Virtual Machine: ", section.is_virtual_machine)
    IN  (IF versions # << >>
         THEN << Notice("OK", << S("Versions - ") >> \o JoinText(", ", versions)) >>
         ELSE << >>)
        \o
        (IF details # << >>
         THEN << Notice("OK", JoinText(" | ", details)) >>
         ELSE << >>)

(* ---------------------------------------------------------------------- *)
(* Legacy plugin (agent_based/windows_defender.py)                         *)
(* ---------------------------------------------------------------------- *)

signatures_with_timestamps ==
    << "AntispywareSignatureLastUpdated", "AntivirusSignatureLastUpdated",
       "NISSignatureLastUpdated", "QuickScanEndTime", "FullScanEndTime" >>

\* dict([(x[0].strip(), ":".join(x[1:]).strip()) for x in string_table])
RECURSIVE LegacyBuildDict(_, _, _)
LegacyBuildDict(string_table, i, parsed) ==
    IF i > Len(string_table) THEN parsed
    ELSE LET x == string_table[i]
         IN  LegacyBuildDict(string_table, i + 1,
                 DictSet(parsed, Strip(x[1]), Strip(Join(":", Tail(x)))))

\* str.endswith(w) for a word w
EndsWith(s, w) == s # << >> /\ IsSym(s[Len(s)], w)

\* the age the legacy parser computes for one timestamp value
LegacyAge(value, now) ==
    LET fmt == IF EndsWith(value, "AM") \/ EndsWith(value, "PM")
               THEN FmtUsAmPm ELSE FmtEuDot
        t   == StrpTime(value, fmt)
    IN  IF t = None THEN None ELSE Some(now - Mktime(t[1]))

\* parse_windows_defender(string_table) of the legacy plugin:
\* [raised, values, ages]; raised is "" or the exception raised, values
\* the dictionary of strings, ages the converted timestamp entries
LegacyParse(string_table, now) ==
    LET parsed == LegacyBuildDict(string_table, 1, EmptyDict)
        keys   == { signatures_with_timestamps[i] :
                        i \in 1..Len(signatures_with_timestamps) }
    IN  IF \E i \in 1..Len(string_table) : string_table[i] = << >>
        THEN [ raised |-> "IndexError", values |-> EmptyDict, ages |-> << >> ]
        ELSE IF \E key \in keys : K(key) \notin DOMAIN parsed
        THEN [ raised |-> "KeyError", values |-> EmptyDict, ages |-> << >> ]
        ELSE [ raised |-> "",
               values |-> [ x \in DOMAIN parsed \ { K(key) : key \in keys } |-> parsed[x] ],
               ages   |-> [ key \in keys |-> LegacyAge(parsed[K(key)], now) ] ]

\* the thresholds themselves not triggering
LegacyState_Strict(age, warn, crit) ==
    IF age > crit THEN "CRIT"
    ELSE IF age > warn THEN "WARN"
    ELSE "OK"

\* the state of a legacy age finding under the thresholds (warn, crit)
LegacyState(age, warn, crit) ==
    IF age >= crit THEN "CRIT"
    ELSE IF age >= warn THEN "WARN"
    ELSE "OK"

signature_names ==
    << << "AntispywareSignatureLastUpdated", "AntiSpyware signature" >>,
       << "AntivirusSignatureLastUpdated", "AntiVirus signature" >>,
       << "NISSignatureLastUpdated", "NIS signature" >> >>

service_names ==
    << << "AMServiceEnabled", "AM Service" >>,
       << "BehaviorMonitorEnabled", "Behavior Monitor" >>,
       << "AntispywareEnabled", "Antispyware" >>,
       << "AntivirusEnabled", "Antivirus" >>,
       << "NISEnabled", "NIS" >>,
       << "RealTimeProtectionEnabled", "RealTimeProtection" >>,
       << "OnAccessProtectionEnabled", "OnAccessProtection" >> >>

service_states == [ True |-> "enabled", False |-> "disabled" ]

scan_ages == << << "FullScanEndTime", "Full Scan" >>, << "QuickScanEndTime", "Quick Scan" >> >>

\* " (warn/crit at %s/%s)" % (render.timespan(warn), render.timespan(crit))
LegacyThresholds(lead, warn, crit) ==
    << S(lead) >> \o Timespan(warn) \o << S("/") >> \o Timespan(crit) \o << S(")") >>

\* the loop over signature_names of the legacy check, from entry i on;
\* st is [out, raised]
RECURSIVE LegacySignatures(_, _, _, _)
LegacySignatures(params, section, i, st) ==
    IF i > Len(signature_names) \/ st.raised # "" THEN st
    ELSE
        LET name == signature_names[i][1]
            desc == signature_names[i][2]
            signature_age == section.ages[name]
        IN  IF name \notin DOMAIN params
            THEN [ st EXCEPT !.raised = "KeyError" ]
            ELSE
                LET warn == params[name][1]
                    crit == params[name][2]
                    s    == LegacyState(signature_age[1], warn, crit)
                    info == << S(desc), S(" age: ") >> \o Timespan(signature_age[1])
                IN  LegacySignatures(params, section, i + 1,
                        [ st EXCEPT !.out = Append(@,
                            IF signature_age = None
                            THEN Result("UNKNOWN",
                                     << S("Age of last "), S(desc), S(" is unknown") >>)
                            ELSE Result(s,
                                     IF s = "OK" THEN info
                                     ELSE info \o LegacyThresholds(" (warn/crit at ", warn, crit))) ])

\* the loop over service_names of the legacy check, from entry i on;
\* st is [out, raised, service_state_status]
RECURSIVE LegacyServices(_, _, _, _)
LegacyServices(params, section, i, st) ==
    IF st.raised # "" THEN st
    ELSE IF i > Len(service_names)
    THEN IF st.service_state_status = 0
         THEN [ st EXCEPT !.out = Append(@,
                    Notice("OK", << S("All services are started correctly") >>)) ]
         ELSE st
    ELSE
        LET name == service_names[i][1]
            desc == service_names[i][2]
        IN  IF K(name) \notin DOMAIN section.values \/ name \notin DOMAIN params
            THEN [ st EXCEPT !.raised = "KeyError" ]
            ELSE IF section.values[K(name)] # K(params[name])
            THEN IF \E w \in DOMAIN service_states : section.values[K(name)] = K(w)
                 THEN LegacyServices(params, section, i + 1,
                          [ st EXCEPT
                              !.out = Append(@, Result("WARN",
                                  << S("service \""), S(desc), S("\" is "),
                                     S(service_states[section.values[K(name)][1].v]) >>)),
                              !.service_state_status = @ + 1 ])
                 ELSE [ st EXCEPT !.raised = "KeyError" ]
            ELSE LegacyServices(params, section, i + 1, st)

\* the loop over scan_ages of the legacy check, from entry i on
RECURSIVE LegacyScans(_, _, _, _)
LegacyScans(params, section, i, st) ==
    IF i > Len(scan_ages) \/ st.raised # "" THEN st
    ELSE
        LET scan_type == scan_ages[i][1]
            desc      == scan_ages[i][2]
        IN  IF scan_type \notin DOMAIN params
            THEN LegacyScans(params, section, i + 1, st)
            ELSE
                LET warn == params[scan_type][1]
                    crit == params[scan_type][2]
                    thresholds == LegacyThresholds("(warn/crit at ", warn, crit)
                    a    == section.ages[scan_type]
                    s    == LegacyState(a[1], warn, crit)
                    ago  == << S("last "), S(IF s = "OK" THEN scan_type ELSE desc),
                               S(" is ") >> \o Timespan(a[1]) \o << S(" ago") >>
                IN  LegacyScans(params, section, i + 1,
                        [ st EXCEPT !.out = Append(@,
                            IF a = None
                            THEN Result("CRIT", << S(desc), S(" has never been executed ") >>
                                                \o thresholds)
                            ELSE Result(s, IF s = "OK" THEN ago
                                           ELSE ago \o << S(" ") >> \o thresholds)) ])

\* the version line closing the legacy check
LegacyVersions(section, st) ==
    LET keys == << "AMEngineVersion", "AMProductVersion", "NISSignatureVersion",
                   "AntivirusSignatureVersion", "AntispywareSignatureVersion" >>
        lead == << "Versions - AM Engine: ", ", AM Product: ", ", NIS Signature: ",
                   ", Antivirus Signature: ", ", Antispyware Signature: " >>
        piece(i) == << S(lead[i]) >> \o section.values[K(keys[i])]
    IN  IF st.raised # "" THEN st
        ELSE IF \E i \in 1..Len(keys) : K(keys[i]) \notin DOMAIN section.values
        THEN [ st EXCEPT !.raised = "KeyError" ]
        ELSE [ st EXCEPT !.out = Append(@,
                   Notice("OK", piece(1) \o piece(2) \o piece(3) \o piece(4) \o piece(5))) ]

\* check_windows_defender(params, section) of the legacy plugin: the
\* findings yielded, and the exception that ended it ("" for none)
LegacyCheck(params, section) ==
    LegacyVersions(section,
        LegacyScans(params, section, 1,
            LegacyServices(params, section, 1,
                LegacySignatures(params, section, 1,
                    [ out |-> << >>, raised |-> "", service_state_status |-> 0 ]))))

(* ---------------------------------------------------------------------- *)
(* Inputs: the agent output, the rule parameters, the clock                *)
(* ---------------------------------------------------------------------- *)

\* how many fields of the sample input (lines, parameters, clock) an input
\* may change
MaxEdits == 2

\* a timestamp "a<sep>b<sep>c<tsep>h:m:s"
Stamp(a, sep, b, c, tsep, h, m, s) ==
    << N(a), S(sep), N(b), S(sep), N(c), S(tsep), N(h), S(":"), N(m), S(":"), N(s) >>

AmPm(stamp, p) == stamp \o << S(" "), S(p) >>

\* the sample agent output of the module docstring: key and value of the
\* lines the plugins read
SampleOutput ==
    << << "AMEngineVersion", K("1.1.17800.5") >>,
       << "AMProductVersion", K("4.18.2101.9") >>,
       << "AMRunningMode", << S("EDR"), S(" "), S("Block"), S(" "), S("Mode") >> >>,
       << "AMServiceEnabled", K("True") >>,
       << "AMServiceVersion", K("4.18.2101.9") >>,
       << "AntispywareEnabled", K("True") >>,
       << "AntispywareSignatureLastUpdated", Stamp(25, ".", 2, 2021, " ", 22, 37, 7) >>,
       << "AntispywareSignatureVersion", K("1.331.1839.0") >>,
       << "AntivirusEnabled", K("True") >>,
       << "AntivirusSignatureLastUpdated", Stamp(25, ".", 2, 2021, " ", 22, 37, 8) >>,
       << "AntivirusSignatureVersion", K("1.331.1839.0") >>,
       << "BehaviorMonitorEnabled", K("True") >>,
       << "ComputerState", << N(0) >> >>,
       << "FullScanEndTime", << >> >>,
       << "IsTamperProtected", K("False") >>,
       << "IsVirtualMachine", K("True") >>,
       << "NISEnabled", K("False") >>,
       << "NISEngineVersion", K("1.1.17800.5") >>,
       << "NISSignatureLastUpdated", Stamp(25, ".", 2, 2021, " ", 22, 37, 8) >>,
       << "NISSignatureVersion", K("1.331.1839.0") >>,
       << "OnAccessProtectionEnabled", K("False") >>,
       << "QuickScanEndTime", Stamp(28, ".", 3, 2019, " ", 12, 13, 6) >>,
       << "RealTimeProtectionEnabled", K("True") >> >>

\* the fields of the agent line "key<pad>: value" under sep(58)
Line(key, value) ==
    Split(":", << S(key), S(" "), S(":") >>
               \o (IF value = << >> THEN << >> ELSE << S(" ") >> \o value))

\* check_default_parameters of the v2 plugin
WINDOWS_DEFENDER_DEFAULT_LEVELS ==
    [ date_format |-> "eu",
      AntispywareSignatureLastUpdated |-> << "fixed", << 3 * 86400, 7 * 86400 >> >>,
      AntivirusSignatureLastUpdated |-> << "fixed", << 2 * 86400, 7 * 86400 >> >>,
      NISSignatureLastUpdated |-> << "fixed", << 5 * 86400, 7 * 86400 >> >>,
      AMServiceEnabled |-> "enabled",
      BehaviorMonitorEnabled |-> "enabled",
      AntispywareEnabled |-> "enabled",
      AntivirusEnabled |-> "enabled",
      NISEnabled |-> "enabled",
      RealTimeProtectionEnabled |-> "enabled",
      OnAccessProtectionEnabled |-> "enabled" ]

\* check_default_parameters of the legacy plugin
windows_defender_default_levels ==
    [ AntispywareSignatureLastUpdated |-> << 3 * 86400, 7 * 86400 >>,
      AntivirusSignatureLastUpdated |-> << 2 * 86400, 7 * 86400 >>,
      NISSignatureLastUpdated |-> << 5 * 86400, 7 * 86400 >>,
      AMServiceEnabled |-> "True",
      BehaviorMonitorEnabled |-> "True",
      AntispywareEnabled |-> "True",
      AntivirusEnabled |-> "True",
      NISEnabled |-> "True",
      RealTimeProtectionEnabled |-> "True",
      OnAccessProtectionEnabled |-> "True" ]

\* the evaluation time of the sample: three days after the antivirus
\* signature update of the sample output
SampleNow ==
    Mktime([ year |-> 2021, month |-> 2, day |-> 28,
             hour |-> 22, minute |-> 37, second |-> 8 ])

LineEdit(key, val) == [ tgt |-> "line", key |-> key, val |-> val ]
ParamEdit(key, val) == [ tgt |-> "param", key |-> key, val |-> val ]
LegacyParamEdit(key, val) == [ tgt |-> "lparam", key |-> key, val |-> val ]
NowEdit(val) == [ tgt |-> "now", key |-> "", val |-> val ]
TableEdit(val) == [ tgt |-> "table", key |-> "", val |-> val ]

\* the changes an input may make to the sample: a line removed (None) or
\* given another value, a rule parameter removed or set, the clock moved,
\* the whole agent section replaced by another one
EditPool ==
    << LineEdit("AntispywareSignatureLastUpdated", None),
       LineEdit("AntispywareSignatureLastUpdated", Some(<< >>)),
       LineEdit("AntispywareSignatureLastUpdated", Some(K("n/a"))),
       LineEdit("AntispywareSignatureLastUpdated", Some(Stamp(25, ".", 2, 2021, " ", 22, 37, 8))),
       LineEdit("AntispywareSignatureLastUpdated", Some(Stamp(25, ".", 2, 2021, " ", 22, 37, 9))),
       LineEdit("AntispywareSignatureLastUpdated", Some(Stamp(21, ".", 2, 2021, " ", 22, 37, 8))),
       LineEdit("AntispywareSignatureLastUpdated", Some(Stamp(21, ".", 2, 2021, " ", 22, 37, 9))),
       LineEdit("AntispywareSignatureLastUpdated", Some(Stamp(1, ".", 3, 2021, " ", 22, 37, 8))),
       LineEdit("AntispywareSignatureLastUpdated", Some(Stamp(1, ".", 3, 2021, " ", 22, 37, 9))),
       LineEdit("AntispywareSignatureLastUpdated", Some(Stamp(30, ".", 2, 2021, " ", 22, 37, 8))),
       LineEdit("AntispywareSignatureLastUpdated",
                Some(AmPm(Stamp(5, "/", 2, 2021, " ", 10, 0, 0), "PM"))),
       LineEdit("AntispywareSignatureLastUpdated",
                Some(AmPm(Stamp(2, "/", 1, 2021, " ", 10, 0, 0), "PM"))),
       LineEdit("AntispywareSignatureLastUpdated",
                Some(AmPm(Stamp(2, "/", 25, 2021, " ", 10, 37, 8), "PM"))),
       LineEdit("AntispywareSignatureLastUpdated", Some(Stamp(2, "/", 25, 2021, " ", 22, 37, 8))),
       LineEdit("AntispywareSignatureLastUpdated", Some(Stamp(25, "/", 2, 2021, " ", 22, 37, 8))),
       LineEdit("AntispywareSignatureLastUpdated", Some(Stamp(2021, "-", 2, 25, " ", 22, 37, 8))),
       LineEdit("AntispywareSignatureLastUpdated", Some(Stamp(2021, "-", 2, 25, "T", 22, 37, 8))),
       LineEdit("AntivirusSignatureLastUpdated", None),
       LineEdit("AntivirusSignatureLastUpdated", Some(Stamp(2, ".", 3, 2021, " ", 22, 37, 8))),
       LineEdit("NISSignatureLastUpdated", Some(K("n/a"))),
       LineEdit("NISSignatureLastUpdated", Some(Stamp(23, ".", 2, 2021, " ", 22, 37, 8))),
       LineEdit("FullScanEndTime", None),
       LineEdit("FullScanEndTime", Some(K("n/a"))),
       LineEdit("FullScanEndTime", Some(Stamp(21, ".", 2, 2021, " ", 22, 37, 8))),
       LineEdit("FullScanEndTime", Some(Stamp(2, ".", 3, 2021, " ", 22, 37, 8))),
       LineEdit("QuickScanEndTime", None),
       LineEdit("QuickScanEndTime", Some(Stamp(26, ".", 2, 2021, " ", 22, 37, 8))),
       LineEdit("QuickScanEndTime", Some(Stamp(26, ".", 2, 2021, " ", 22, 37, 9))),
       LineEdit("NISEnabled", Some(K("True"))),
       LineEdit("NISEnabled", None),
       LineEdit("OnAccessProtectionEnabled", Some(K("True"))),
       LineEdit("OnAccessProtectionEnabled", Some(K("true"))),
       LineEdit("AMServiceEnabled", Some(K("False"))),
       LineEdit("AMServiceEnabled", Some(<< >>)),
       LineEdit("RealTimeProtectionEnabled", Some(K("False"))),
       LineEdit("AMEngineVersion", None),
       LineEdit("AMRunningMode", None),
       LineEdit("IsTamperProtected", None),
       ParamEdit("date_format", Some("us")),
       ParamEdit("date_format", Some("iso")),
       ParamEdit("date_format", None),
       ParamEdit("AntispywareSignatureLastUpdated", None),
       ParamEdit("AntispywareSignatureLastUpdated", Some(<< "no_levels", None >>)),
       ParamEdit("FullScanEndTime", Some(<< "fixed", << 7 * 86400, 14 * 86400 >> >>)),
       ParamEdit("FullScanEndTime", Some(<< "no_levels", None >>)),
       ParamEdit("QuickScanEndTime", Some(<< "fixed", << 2 * 86400, 7 * 86400 >> >>)),
       ParamEdit("NISEnabled", Some("disabled")),
       ParamEdit("OnAccessProtectionEnabled", Some("disabled")),
       ParamEdit("AMServiceEnabled", Some("disabled")),
       ParamEdit("AMServiceEnabled", None),
       LegacyParamEdit("FullScanEndTime", Some(<< 7 * 86400, 14 * 86400 >>)),
       LegacyParamEdit("QuickScanEndTime", Some(<< 2 * 86400, 7 * 86400 >>)),
       LegacyParamEdit("NISEnabled", Some("False")),
       LegacyParamEdit("OnAccessProtectionEnabled", Some("False")),
       LegacyParamEdit("AntispywareSignatureLastUpdated", Some(<< 86400, 2 * 86400 >>)),
       NowEdit(SampleNow + 4 * 86400),
       TableEdit("empty"),
       TableEdit("bare"),
       TableEdit("minimal"),
       TableEdit("doubled") >>

\* the sets of at most k edits, as sets of positions of EditPool
RECURSIVE EditSetsUpTo(_)
EditSetsUpTo(k) ==
    IF k = 0 THEN { {} }
    ELSE LET smaller == EditSetsUpTo(k - 1)
         IN  smaller \cup { A \cup {e} : A \in smaller, e \in 1..Len(EditPool) }

\* no field is changed twice, only parameters of the plugin are set, and
\* no line is changed in a section that is replaced as a whole
EditSets(plugin) ==
    { E \in EditSetsUpTo(MaxEdits) :
        /\ \A e \in E : EditPool[e].tgt # (IF plugin = "v2" THEN "lparam" ELSE "param")
        /\ \A e1, e2 \in E : ~(EditPool[e1].tgt = "table" /\ EditPool[e2].tgt = "line")
        /\ \A e1, e2 \in E :
               (EditPool[e1].tgt = EditPool[e2].tgt /\ EditPool[e1].key = EditPool[e2].key)
                   => e1 = e2 }

\* the edit of E on the field (tgt, key): Some(edit) or None
EditOn(E, tgt, key) ==
    IF \E e \in E : EditPool[e].tgt = tgt /\ EditPool[e].key = key
    THEN Some(EditPool[CHOOSE e \in E : EditPool[e].tgt = tgt /\ EditPool[e].key = key])
    ELSE None

\* the lines of the sample output under the edits E, from sample line i on
RECURSIVE TableOf(_, _)
TableOf(E, i) ==
    IF i > Len(SampleOutput) THEN << >>
    ELSE LET key == SampleOutput[i][1]
             ed  == EditOn(E, "line", key)
         IN  (IF ed = None THEN << Line(key, SampleOutput[i][2]) >>
              ELSE IF ed[1].val = None THEN << >>
              ELSE << Line(key, ed[1].val[1]) >>)
             \o TableOf(E, i + 1)

\* the parameters base under the edits E of target tgt
ParamsOf(E, tgt, base) ==
    LET keys  == DOMAIN base \cup { EditPool[e].key : e \in { x \in E : EditPool[x].tgt = tgt } }
        gone  == { key \in keys : EditOn(E, tgt, key) # None /\ EditOn(E, tgt, key)[1].val = None }
    IN  [ key \in keys \ gone |->
            IF EditOn(E, tgt, key) # None THEN EditOn(E, tgt, key)[1].val[1] ELSE base[key] ]

\* the keys of the lines that carry a version, the running mode or a flag
InfoKeys ==
    { "AMEngineVersion", "AMProductVersion", "AMServiceVersion", "NISEngineVersion",
      "AntispywareSignatureVersion", "AntivirusSignatureVersion", "NISSignatureVersion",
      "AMRunningMode", "IsTamperProtected", "IsVirtualMachine" }

\* the lines a second run of the agent plugin appends to the section of the
\* first: keys that recur, with later values
LaterOutput ==
    << << "AMEngineVersion", K("1.1.18000.1") >>,
       << "NISEnabled", K("True") >>,
       << "AntivirusSignatureLastUpdated", Stamp(27, ".", 2, 2021, " ", 22, 37, 8) >>,
       << "NISSignatureLastUpdated", AmPm(Stamp(25, "/", 2, 2021, " ", 10, 37, 8), "PM") >>,
       << "RealTimeProtectionEnabled", K("n/a") >> >>

\* the agent sections that are not the sample with some lines changed:
\* no line at all ("empty"), lines without a separator ("bare"), the
\* timestamp and service lines alone ("minimal"), the sample followed by
\* LaterOutput ("doubled")
ShapeTable(shape) ==
    LET lines(output, I) == [ i \in I |-> Line(output[i][1], output[i][2]) ]
        all == lines(SampleOutput, 1..Len(SampleOutput))
    IN  CASE shape = "empty"   -> << >>
          [] shape = "bare"    -> [ i \in 1..Len(SampleOutput) |-> << K(SampleOutput[i][1]) >> ]
          [] shape = "minimal" ->
                 SelectSeq(all, LAMBDA line : \A key \in InfoKeys : Strip(line[1]) # K(key))
          [] shape = "doubled" -> all \o lines(LaterOutput, 1..Len(LaterOutput))

\* the agent section under the edits E
StringTableOf(E) ==
    IF EditOn(E, "table", "") = None THEN TableOf(E, 1)
    ELSE ShapeTable(EditOn(E, "table", "")[1].val)

NowOf(E) == IF EditOn(E, "now", "") = None THEN SampleNow ELSE EditOn(E, "now", "")[1].val

(* ---------------------------------------------------------------------- *)
(* The state machine                                                       *)
(* ---------------------------------------------------------------------- *)

VARIABLES
    plugin,         \* "v2" or "legacy": the plugin that is installed
    string_table,   \* the agent section as the check engine hands it over
    params,         \* the rule parameters merged over the defaults
    now,            \* time.time() of the run
    section,        \* the parse function's result
    out,            \* the findings the check function has yielded so far
    pc              \* where the run stands

vars == << plugin, string_table, params, now, section, out, pc >>

Init ==
    /\ plugin \in { "v2", "legacy" }
    /\ \E E \in EditSets(plugin) :
          /\ string_table = StringTableOf(E)
          /\ params = IF plugin = "v2"
                      THEN ParamsOf(E, "param", WINDOWS_DEFENDER_DEFAULT_LEVELS)
                      ELSE ParamsOf(E, "lparam", windows_defender_default_levels)
          /\ now = NowOf(E)
    /\ section = None
    /\ out = << >>
    /\ pc = "start"

\* the scan ages yielded before the service states
StepAfter_Swapped(step) ==
    CASE step = "signature_ages" -> "scan_ages"
      [] step = "scan_ages"      -> "service_states"
      [] step = "service_states" -> "version_info"
      [] step = "version_info"   -> "done"

\* the order of the yield-from statements of check_windows_defender
StepAfter(step) ==
    CASE step = "signature_ages" -> "service_states"
      [] step = "service_states" -> "scan_ages"
      [] step = "scan_ages"      -> "version_info"
      [] step = "version_info"   -> "done"

\* the check engine calls parse_windows_defender; without a section no
\* check function runs
Parse ==
    /\ pc = "start" /\ plugin = "v2"
    /\ section' = ParseWindowsDefender(string_table)
    /\ pc' = IF section' = None THEN "nodata" ELSE "signature_ages"
    /\ UNCHANGED << plugin, string_table, params, now, out >>

\* check_windows_defender: yield from _check_signature_ages(params, section, now)
SignatureAges ==
    /\ pc = "signature_ages"
    /\ out' = out \o CheckSignatureAges(params, section[1], now)
    /\ pc' = StepAfter(pc)
    /\ UNCHANGED << plugin, string_table, params, now, section >>

\* check_windows_defender: yield from _check_service_states(params, section)
ServiceStates ==
    /\ pc = "service_states"
    /\ out' = out \o CheckServiceStates(params, section[1])
    /\ pc' = StepAfter(pc)
    /\ UNCHANGED << plugin, string_table, params, now, section >>

\* check_windows_defender: yield from _check_scan_ages(params, section, now)
ScanAges ==
    /\ pc = "scan_ages"
    /\ out' = out \o CheckScanAges(params, section[1], now)
    /\ pc' = StepAfter(pc)
    /\ UNCHANGED << plugin, string_table, params, now, section >>

\* check_windows_defender: yield from _yield_version_info(section)
VersionInfo ==
    /\ pc = "version_info"
    /\ out' = out \o YieldVersionInfo(section[1])
    /\ pc' = StepAfter(pc)
    /\ UNCHANGED << plugin, string_table, params, now, section >>

\* the legacy parse function
LegacyParseStep ==
    /\ pc = "start" /\ plugin = "legacy"
    /\ section' = LegacyParse(string_table, now)
    /\ pc' = IF section'.raised # "" THEN "raised" ELSE "legacy_check"
    /\ UNCHANGED << plugin, string_table, params, now, out >>

\* the legacy check function
LegacyCheckStep ==
    /\ pc = "legacy_check"
    /\ LET r == LegacyCheck(params, section)
       IN  /\ out' = r.out
           /\ pc' = IF r.raised # "" THEN "raised" ELSE "done"
    /\ UNCHANGED << plugin, string_table, params, now, section >>

Next ==
    \/ Parse
    \/ SignatureAges
    \/ ServiceStates
    \/ ScanAges
    \/ VersionInfo
    \/ LegacyParseStep
    \/ LegacyCheckStep

Spec == Init /\ [][Next]_vars

(* ---------------------------------------------------------------------- *)
(* Properties                                                              *)
(* ---------------------------------------------------------------------- *)

\* the steps of check_windows_defender that have run
SignaturesDone ==
    plugin = "v2" /\ pc \in { "service_states", "scan_ages", "version_info", "done" }
ServicesDone == plugin = "v2" /\ pc \in { "scan_ages", "version_info", "done" }
ScansDone == plugin = "v2" /\ pc \in { "version_info", "done" }
CheckDone == plugin = "v2" /\ pc = "done"

\* The place of a finding in the documented order, read off the finding:
\* 1..3 the three signatures, 4 the services, 5 the full scan, 6 the quick
\* scan, 7 the version/info notices
PlaceOfLabel(label) ==
    CASE label = "AntiSpyware signature" -> 1
      [] label = "AntiVirus signature"   -> 2
      [] label = "NIS signature"         -> 3
      [] label = "Full Scan"             -> 5
      [] label = "Quick Scan"            -> 6
      [] OTHER                           -> 0

PlaceOfMetric(name) ==
    CASE name = "antispyware_sig_age" -> 1
      [] name = "antivirus_sig_age"   -> 2
      [] name = "nis_sig_age"         -> 3
      [] name = "full_scan_age"       -> 5
      [] name = "quick_scan_age"      -> 6
      [] OTHER                        -> 0

PlaceOf(f) ==
    IF f.type = "Metric" THEN PlaceOfMetric(f.name)
    ELSE IF f.notice # << >> THEN 7
    ELSE IF Len(f.summary) < 2 THEN 0
    ELSE IF f.summary[1] = S("Age of ") THEN PlaceOfLabel(f.summary[2].v)
    ELSE IF f.summary[2] = S(" age") THEN PlaceOfLabel(f.summary[1].v)
    ELSE IF f.summary[1] = S("service \"") \/ f.summary[1] = S("All ") THEN 4
    ELSE IF f.summary[1] = S("Last ") THEN PlaceOfLabel(f.summary[2].v)
    ELSE IF f.summary[2] = S(" has never been executed ") THEN PlaceOfLabel(f.summary[1].v)
    ELSE 0

\* the findings yielded so far that belong to place k
At(k) == SelectSeq(out, LAMBDA f : PlaceOf(f) = k)

Results(fs) == SelectSeq(fs, LAMBDA f : f.type = "Result")
Metrics(fs) == SelectSeq(fs, LAMBDA f : f.type = "Metric")

\* C1: check_windows_defender yields its findings in the fixed order
\* signature ages (antispyware, antivirus, NIS), service states, scan ages
\* (full scan before quick scan), version/info: every finding has a place
\* in that order and no finding of a later place precedes one of an
\* earlier place.
C1_FixedOrder ==
    plugin = "v2" =>
        /\ \A i \in 1..Len(out) : PlaceOf(out[i]) \in 1..7
        /\ \A i, j \in 1..Len(out) : i < j => PlaceOf(out[i]) <= PlaceOf(out[j])

\* a finished run whose output holds findings of all seven places
C1_Witness ==
    CheckDone /\ \A k \in 1..7 : At(k) # << >>

\* the candidate layouts of each date format, in the documented order
DocumentedLayouts ==
    [ us  |-> << FmtUsAmPm, FmtUs24 >>,
      eu  |-> << FmtEuDot, FmtUsAmPm, FmtEuSlash, FmtEuAmPm >>,
      iso |-> << FmtIso, FmtIsoT >> ]

ActiveFormat == ParamsGetDefault(params, "date_format", "eu")
ActiveLayouts == DocumentedLayouts[ActiveFormat]

AgePlaces == { 1, 2, 3, 5, 6 }
SignaturePlaces == { 1, 2, 3 }

\* the parameter key, the label and the raw timestamp of place k
KeyAt(k) ==
    CASE k = 1 -> "AntispywareSignatureLastUpdated"
      [] k = 2 -> "AntivirusSignatureLastUpdated"
      [] k = 3 -> "NISSignatureLastUpdated"
      [] k = 5 -> "FullScanEndTime"
      [] k = 6 -> "QuickScanEndTime"

LabelAt(k) ==
    CASE k = 1 -> "AntiSpyware signature"
      [] k = 2 -> "AntiVirus signature"
      [] k = 3 -> "NIS signature"
      [] k = 5 -> "Full Scan"
      [] k = 6 -> "Quick Scan"

StampAt(k) ==
    CASE k = 1 -> section[1].antispyware_signature_last_updated
      [] k = 2 -> section[1].antivirus_signature_last_updated
      [] k = 3 -> section[1].nis_signature_last_updated
      [] k = 5 -> section[1].full_scan_end_time
      [] k = 6 -> section[1].quick_scan_end_time

StepDone(k) == IF k <= 3 THEN SignaturesDone ELSE ScansDone

\* the age of the timestamp of place k read by the i-th active layout:
\* Some(age), or None when the layout does not parse the string
Reading(k, i) ==
    IF ~Truthy(StampAt(k)) THEN None
    ELSE LET t == StrpTime(Strip(StampAt(k)[1]), ActiveLayouts[i])
         IN  IF t = None THEN None ELSE Some(now - Mktime(t[1]))

\* the layouts that parse the timestamp of place k, and those among them
\* whose reading is at most one day ahead of the evaluation time
Parsing(k) == { i \in 1..Len(ActiveLayouts) : Reading(k, i) # None }
Accepted(k) == { i \in Parsing(k) : Reading(k, i)[1] >= -86400 }

First(I) == CHOOSE i \in I : \A j \in I : i <= j

FixedLevels(k) == KeyAt(k) \in DOMAIN params /\ params[KeyAt(k)][1] = "fixed"
WarnAt(k) == params[KeyAt(k)][2][1]
CritAt(k) == params[KeyAt(k)][2][2]

\* the severity the threshold rule gives age a under (warn, crit)
Severity(a, warn, crit) ==
    IF a >= crit THEN "CRIT" ELSE IF a >= warn THEN "WARN" ELSE "OK"

\* the age the v2 plugin parsed for place k
ParsedAge(k) == ParseTimestamp(StampAt(k), now, ActiveFormat)

LegacyChecked == plugin = "legacy" /\ pc \in { "done", "raised" } /\ section.raised = ""

LegacyScanKey(word) ==
    IF word \in { "Full Scan", "FullScanEndTime" } THEN "FullScanEndTime"
    ELSE "QuickScanEndTime"

\* C2: for every successfully parsed signature or scan age a and every
\* configured fixed pair (warn, crit) the finding is crit when a >= crit,
\* warn when warn <= a < crit and ok when a < warn, in the v2 plugin and in
\* the legacy plugin alike.
C2_ThresholdSeverity ==
    /\ \A k \in AgePlaces :
          (StepDone(k) /\ FixedLevels(k) /\ ParsedAge(k) # None) =>
              /\ Len(Results(At(k))) = 1
              /\ Results(At(k))[1].state = Severity(ParsedAge(k)[1], WarnAt(k), CritAt(k))
    /\ LegacyChecked =>
          /\ pc = "done" => Len(out) >= Len(signature_names)
          /\ \A i \in 1..Len(signature_names) :
                (i <= Len(out) /\ section.ages[signature_names[i][1]] # None) =>
                    out[i].state = Severity(section.ages[signature_names[i][1]][1],
                                            params[signature_names[i][1]][1],
                                            params[signature_names[i][1]][2])
          /\ \A i \in 1..Len(out) :
                (out[i].summary # << >> /\ out[i].summary[1] = S("last ")) =>
                    LET key == LegacyScanKey(out[i].summary[2].v)
                    IN  out[i].state = Severity(section.ages[key][1],
                                                params[key][1], params[key][2])
          /\ \A i \in 1..Len(scan_ages) :
                LET key == scan_ages[i][1]
                IN  (pc = "done" /\ key \in DOMAIN params /\ section.ages[key] # None) =>
                        \E j \in 1..Len(out) :
                            /\ out[j].summary # << >> /\ out[j].summary[1] = S("last ")
                            /\ LegacyScanKey(out[j].summary[2].v) = key

\* a finished v2 run with one age exactly at its crit threshold reported
\* crit and another exactly at its warn threshold reported warn
C2_Witness ==
    /\ CheckDone
    /\ \E k \in AgePlaces :
          /\ FixedLevels(k) /\ ParsedAge(k) = Some(CritAt(k))
          /\ Results(At(k))[1].state = "CRIT"
    /\ \E k \in AgePlaces :
          /\ FixedLevels(k) /\ ParsedAge(k) = Some(WarnAt(k))
          /\ Results(At(k))[1].state = "WARN"

\* C3 as stated: every signature timestamp that matches a candidate layout
\* of the active date format is parsed, and the age compared and carried by
\* the metric is the evaluation time minus the time that layout reads.
C3_EveryMatchingStampParsed ==
    \A k \in SignaturePlaces :
        (SignaturesDone /\ Parsing(k) # {}) =>
            /\ Len(Metrics(At(k))) = 1
            /\ Metrics(At(k))[1].value = Reading(k, First(Parsing(k)))[1]

\* C3 amended: every signature timestamp that matches a candidate layout
\* of the active date format under which it lies at most one day ahead of
\* the evaluation time is parsed; the age carried by the metric is the
\* evaluation time minus the time read by the first such layout, and with
\* fixed levels the severity is the one of that age.
C3_AcceptedStampAge ==
    \A k \in SignaturePlaces :
        (SignaturesDone /\ Accepted(k) # {}) =>
            LET a == Reading(k, First(Accepted(k)))[1]
            IN  /\ Len(Metrics(At(k))) = 1 /\ Len(Results(At(k))) = 1
                /\ Metrics(At(k))[1].value = a
                /\ Results(At(k))[1].state # "UNKNOWN"
                /\ FixedLevels(k) =>
                       Results(At(k))[1].state = Severity(a, WarnAt(k), CritAt(k))

\* the documented example: format eu, the antivirus signature updated at
\* 25.02.2021 22:37:08, evaluated exactly three days later under warn = 2
\* days and crit = 7 days: a warn finding and the metric value 259200
C3_Witness ==
    /\ SignaturesDone
    /\ ActiveFormat = "eu"
    /\ StampAt(2) = Some(Stamp(25, ".", 2, 2021, " ", 22, 37, 8))
    /\ now = Mktime([ year |-> 2021, month |-> 2, day |-> 25,
                      hour |-> 22, minute |-> 37, second |-> 8 ]) + 3 * 86400
    /\ FixedLevels(2) /\ WarnAt(2) = 2 * 86400 /\ CritAt(2) = 7 * 86400
    /\ Results(At(2))[1].state = "WARN"
    /\ Metrics(At(2))[1].value = 259200

\* C4: a signature timestamp that is absent, empty or matches none of the
\* candidate layouts of the active date format yields exactly one finding
\* for that signature, of severity unknown, and no metric.
C4_UnreadableStampUnknown ==
    \A k \in SignaturePlaces :
        (SignaturesDone /\ Parsing(k) = {}) =>
            At(k) = << Result("UNKNOWN",
                              << S("Age of "), S(LabelAt(k)), S(" is unknown") >>) >>

\* one signature timestamp absent, another present but matching no layout,
\* both reported unknown
C4_Witness ==
    /\ SignaturesDone
    /\ \E k \in SignaturePlaces :
          StampAt(k) = None /\ Len(At(k)) = 1 /\ At(k)[1].state = "UNKNOWN"
    /\ \E k \in SignaturePlaces :
          /\ Truthy(StampAt(k)) /\ Parsing(k) = {}
          /\ Len(At(k)) = 1 /\ At(k)[1].state = "UNKNOWN"

\* C5: a reading of a timestamp is accepted exactly when its age is at
\* least -86400 seconds.  A signature whose timestamp parses has a metric
\* exactly when one of its readings is that recent, the metric then carries
\* such a reading, and with every reading further ahead the signature is
\* reported unknown; no metric of any age check is below -86400.
C5_FutureTolerance ==
    /\ \A k \in SignaturePlaces :
          (SignaturesDone /\ Parsing(k) # {}) =>
              /\ (Accepted(k) # {}) <=> (Metrics(At(k)) # << >>)
              /\ Accepted(k) # {} =>
                     \E i \in Accepted(k) : Metrics(At(k))[1].value = Reading(k, i)[1]
              /\ Accepted(k) = {} =>
                     /\ Len(At(k)) = 1
                     /\ At(k)[1].state = "UNKNOWN"
    /\ plugin = "v2" =>
          \A i \in 1..Len(out) : out[i].type = "Metric" => out[i].value >= -86400

\* one signature exactly one day ahead, accepted with the age -86400, and
\* another two days ahead, rejected and reported unknown
C5_Witness ==
    /\ SignaturesDone
    /\ \E k \in SignaturePlaces :
          /\ Parsing(k) # {}
          /\ Metrics(At(k)) # << >> /\ Metrics(At(k))[1].value = -86400
    /\ \E k \in SignaturePlaces :
          /\ Parsing(k) # {} /\ \A i \in Parsing(k) : Reading(k, i)[1] = -2 * 86400
          /\ At(k)[1].state = "UNKNOWN"

\* the places whose finding comes from a parsed age: a metric that is not
\* the zero metric of a scan that never ran
AgeReported(k) ==
    /\ Metrics(At(k)) # << >>
    /\ Results(At(k)) # << >>
    /\ Results(At(k))[1].summary[2] # S(" has never been executed ")

\* C6 as stated: the first layout, in the listed order, that parses the
\* string determines the result; a later layout is used only when every
\* earlier layout fails to parse the string.
C6_FirstParsingLayoutWins ==
    \A k \in AgePlaces :
        (StepDone(k) /\ AgeReported(k) /\ Parsing(k) # {}) =>
            Metrics(At(k))[1].value = Reading(k, First(Parsing(k)))[1]

\* C6 amended: the layouts are tried in the listed order and the first one
\* that parses the string to a time at most one day ahead of the
\* evaluation time determines the result; a later layout is used only when
\* every earlier layout fails to parse the string or reads it further
\* ahead than that.
C6_FirstAcceptedLayoutWins ==
    \A k \in AgePlaces :
        (StepDone(k) /\ AgeReported(k)) =>
            \E i \in 1..Len(ActiveLayouts) :
                /\ i \in Accepted(k)
                /\ Metrics(At(k))[1].value = Reading(k, i)[1]
                /\ \A j \in 1..(i - 1) : j \notin Accepted(k)

\* a timestamp an earlier layout parses to a time too far ahead, reported
\* with the age a later layout reads
C6_Witness ==
    \E k \in SignaturePlaces :
        /\ SignaturesDone /\ AgeReported(k)
        /\ Accepted(k) # {}
        /\ First(Parsing(k)) < First(Accepted(k))
        /\ Metrics(At(k))[1].value = Reading(k, First(Accepted(k)))[1]
        /\ Metrics(At(k))[1].value # Reading(k, First(Parsing(k)))[1]

\* the seven services: parameter key, description, tri-state value
ServiceCount == Len(service_names)
ServiceKey(i) == Services(section[1])[i].param_key
ServiceName(i) == Services(section[1])[i].description
ServiceValue(i) == Services(section[1])[i].current_value
ServiceExpected(i) == ParamsGetDefault(params, ServiceKey(i), "enabled")
ServiceActual(i) == IF ServiceValue(i) = Some(TRUE) THEN "enabled" ELSE "disabled"

ServiceUnknown(i) == ServiceValue(i) = None
ServiceConforms(i) == ~ServiceUnknown(i) /\ ServiceActual(i) = ServiceExpected(i)
ServiceMismatch(i) == ~ServiceUnknown(i) /\ ServiceActual(i) # ServiceExpected(i)

AllServices == 1..ServiceCount
Conforming == { i \in AllServices : ServiceConforms(i) }
Mismatching == { i \in AllServices : ServiceMismatch(i) }
UnknownServices == { i \in AllServices : ServiceUnknown(i) }

AggregateFinding(n) ==
    Result("OK", << S("All "), N(n), S(" services in expected state") >>)

MismatchFinding(i) ==
    Result("WARN", << S("service \""), S(ServiceName(i)), S("\" is "),
                      S(ServiceActual(i)), S(" (expected "), S(ServiceExpected(i)),
                      S(")") >>)

UnknownFinding(i) ==
    Result("UNKNOWN", << S("service \""), S(ServiceName(i)), S("\" state is unknown") >>)

Count(fs, f) == Len(SelectSeq(fs, LAMBDA g : g = f))
WithState(fs, state) == SelectSeq(fs, LAMBDA g : g.state = state)
Aggregates(fs) == SelectSeq(fs, LAMBDA g : g.summary[1] = S("All "))

\* C7: with all seven services known and each in its expected state the
\* service sub-check yields exactly one finding, the aggregate ok finding
\* reporting 7 services, and no per-service finding.
C7_AllConformAggregate ==
    (ServicesDone /\ Conforming = AllServices) => At(4) = << AggregateFinding(7) >>

\* all seven services as expected, one of them expected to be disabled
C7_Witness ==
    /\ ServicesDone /\ Conforming = AllServices
    /\ \E i \in AllServices : ServiceExpected(i) = "disabled"
    /\ At(4) = << AggregateFinding(7) >>

\* C8: every known service value that differs from its expected state
\* yields exactly one warn finding naming the service with its actual and
\* its expected state, there are no other warn findings, and with a warn
\* finding the aggregate ok finding is absent.
C8_MismatchWarns ==
    ServicesDone =>
        /\ \A i \in Mismatching : Count(At(4), MismatchFinding(i)) = 1
        /\ Len(WithState(At(4), "WARN")) = Cardinality(Mismatching)
        /\ WithState(At(4), "WARN") # << >> => Aggregates(At(4)) = << >>

\* exactly one mismatch among seven known services: one warn, no aggregate
C8_Witness ==
    /\ ServicesDone /\ UnknownServices = {} /\ Cardinality(Mismatching) = 1
    /\ \E i \in Mismatching : At(4) = << MismatchFinding(i) >>

\* C9 as stated: an unknown service yields an unknown finding for that
\* service only, and with zero mismatches among the known services the
\* aggregate ok finding counting the conforming services is still yielded
\* when services are unknown.
C9_AggregateDespiteUnknown ==
    ServicesDone =>
        /\ \A i \in UnknownServices : Count(At(4), UnknownFinding(i)) = 1
        /\ Len(WithState(At(4), "UNKNOWN")) = Cardinality(UnknownServices)
        /\ Mismatching = {} =>
               Aggregates(At(4)) = << AggregateFinding(Cardinality(Conforming)) >>

\* C9 amended: an unknown service yields an unknown finding for that
\* service only and counts as an issue: the aggregate ok finding is
\* yielded exactly when there is no mismatch and no unknown service.
C9_UnknownSuppressesAggregate ==
    ServicesDone =>
        /\ \A i \in UnknownServices : Count(At(4), UnknownFinding(i)) = 1
        /\ Len(WithState(At(4), "UNKNOWN")) = Cardinality(UnknownServices)
        /\ (Mismatching = {} /\ UnknownServices = {}) =>
               Aggregates(At(4)) = << AggregateFinding(7) >>
        /\ (Mismatching # {} \/ UnknownServices # {}) => Aggregates(At(4)) = << >>

\* an unknown service beside six conforming ones: its unknown finding
\* alone, no aggregate
C9_Witness ==
    /\ ServicesDone /\ Mismatching = {} /\ Cardinality(UnknownServices) = 1
    /\ \E i \in UnknownServices : At(4) = << UnknownFinding(i) >>

\* C10: a scan type without a configured threshold yields no finding and
\* no metric, whatever its timestamp.
C10_UnconfiguredScanSkipped ==
    \A k \in { 5, 6 } :
        (ScansDone /\ KeyAt(k) \notin DOMAIN params) => At(k) = << >>

\* the full scan unconfigured with a timestamp that parses and yields
\* nothing, beside the quick scan configured and reported
C10_Witness ==
    /\ ScansDone
    /\ KeyAt(5) \notin DOMAIN params /\ Accepted(5) # {} /\ At(5) = << >>
    /\ KeyAt(6) \in DOMAIN params /\ At(6) # << >>

\* the scan places, and the metric name of each
ScanPlaces == { 5, 6 }
MetricNameAt(k) == IF k = 5 THEN "full_scan_age" ELSE "quick_scan_age"
Configured(k) == KeyAt(k) \in DOMAIN params

\* C11: for a scan type with a configured threshold, a timestamp that is
\* missing, empty, unparseable under the active date format or rejected as
\* more than one day in the future yields exactly one finding, of severity
\* crit, followed by a metric of that scan type with value 0, and nothing
\* else for that scan type.
C11_UnreadableScanCrit ==
    \A k \in ScanPlaces :
        (ScansDone /\ Configured(k) /\ Accepted(k) = {}) =>
            /\ Len(At(k)) = 2
            /\ At(k)[1].type = "Result" /\ At(k)[1].state = "CRIT"
            /\ At(k)[1].summary[1] = S(LabelAt(k))
            /\ At(k)[2] = Metric(MetricNameAt(k), 0, None)

\* a configured full scan whose timestamp parses to a time two days ahead
\* of the evaluation time: the crit finding and the zero metric
C11_Witness ==
    /\ ScansDone /\ Configured(5)
    /\ Parsing(5) # {} /\ Accepted(5) = {}
    /\ Len(At(5)) = 2 /\ At(5)[1].state = "CRIT"
    /\ At(5)[2] = Metric("full_scan_age", 0, None)

\* the fields the version/info step reports: the five versions and the
\* running mode when not empty, the two flags when known
VersionsPresent ==
    \/ Truthy(section[1].am_engine_version)
    \/ Truthy(section[1].am_product_version)
    \/ Truthy(section[1].nis_signature_version)
    \/ Truthy(section[1].antivirus_signature_version)
    \/ Truthy(section[1].antispyware_signature_version)

DetailsPresent ==
    \/ Truthy(section[1].am_running_mode)
    \/ section[1].is_tamper_protected # None
    \/ section[1].is_virtual_machine # None

\* C12 as stated: for every snapshot the output of check_windows_defender
\* ends with an informational finding of severity ok of the version/info
\* step.
C12_InfoAlwaysLast ==
    CheckDone =>
        /\ out # << >>
        /\ PlaceOf(out[Len(out)]) = 7
        /\ out[Len(out)].state = "OK"

\* C12 amended: the version/info step yields one notice of severity ok for
\* the versions when one of them is present and one for the details when
\* one of them is present, these notices are the last findings of the
\* output, and for a snapshot with none of these fields the step yields
\* nothing.
C12_InfoLastWhenPresent ==
    CheckDone =>
        LET n == (IF VersionsPresent THEN 1 ELSE 0) + (IF DetailsPresent THEN 1 ELSE 0)
        IN  /\ Len(At(7)) = n
            /\ \A i \in 1..Len(out) :
                   (PlaceOf(out[i]) = 7) <=> (i > Len(out) - n)
            /\ \A i \in 1..Len(At(7)) :
                   At(7)[i].type = "Result" /\ At(7)[i].state = "OK"

\* a snapshot without the engine version and the running mode: the two
\* notices close the output
C12_Witness ==
    /\ CheckDone
    /\ section[1].am_engine_version = None /\ section[1].am_running_mode = None
    /\ Len(At(7)) = 2 /\ Len(out) > 2
    /\ PlaceOf(out[Len(out)]) = 7 /\ PlaceOf(out[Len(out) - 1]) = 7
    /\ PlaceOf(out[Len(out) - 2]) # 7

\* the v2 parser has just returned a snapshot
Parsed == plugin = "v2" /\ pc = "signature_ages"

\* the text of a line before the check engine split it, and what follows
\* the first separator in a text
RECURSIVE AfterFirst(_, _)
AfterFirst(sep, s) ==
    IF s = << >> THEN << >>
    ELSE IF IsSym(Head(s), sep) THEN Tail(s)
    ELSE AfterFirst(sep, Tail(s))

OriginalLine(i) == Join(":", string_table[i])
OriginalValue(i) == AfterFirst(":", OriginalLine(i))

\* the snapshot field that holds the string value of a key
StringField(key) ==
    CASE key = K("AMEngineVersion")                 -> section[1].am_engine_version
      [] key = K("AMProductVersion")                -> section[1].am_product_version
      [] key = K("AMServiceVersion")                -> section[1].am_service_version
      [] key = K("NISEngineVersion")                -> section[1].nis_engine_version
      [] key = K("AntispywareSignatureVersion")     -> section[1].antispyware_signature_version
      [] key = K("AntivirusSignatureVersion")       -> section[1].antivirus_signature_version
      [] key = K("NISSignatureVersion")             -> section[1].nis_signature_version
      [] key = K("AntispywareSignatureLastUpdated") -> section[1].antispyware_signature_last_updated
      [] key = K("AntivirusSignatureLastUpdated")   -> section[1].antivirus_signature_last_updated
      [] key = K("NISSignatureLastUpdated")         -> section[1].nis_signature_last_updated
      [] key = K("FullScanEndTime")                 -> section[1].full_scan_end_time
      [] key = K("QuickScanEndTime")                -> section[1].quick_scan_end_time
      [] key = K("AMRunningMode")                   -> section[1].am_running_mode
      [] key = K("ComputerState")                   -> section[1].computer_state

StringKeys ==
    { K("AMEngineVersion"), K("AMProductVersion"), K("AMServiceVersion"),
      K("NISEngineVersion"), K("AntispywareSignatureVersion"),
      K("AntivirusSignatureVersion"), K("NISSignatureVersion"),
      K("AntispywareSignatureLastUpdated"), K("AntivirusSignatureLastUpdated"),
      K("NISSignatureLastUpdated"), K("FullScanEndTime"), K("QuickScanEndTime"),
      K("AMRunningMode"), K("ComputerState") }

\* the lines of two fields or more, and those among them that are the last
\* of their key
Keyed == { i \in 1..Len(string_table) : Len(string_table[i]) >= 2 }
KeyOf(i) == Strip(string_table[i][1])
LastOfKey ==
    { i \in Keyed : \A j \in (i + 1)..Len(string_table) : Len(string_table[j]) >= 2 => KeyOf(j) # KeyOf(i) }

CountSep(s) == Len(SelectSeq(s, LAMBDA t : IsSym(t, ":")))

\* C13: the key of a line is its first field and the value everything that
\* follows the first separator of the line: a value containing the
\* separator reaches the snapshot whole (with its surrounding blanks
\* stripped), and splitting a value on the separator and rejoining the
\* fields gives the value back.
C13_ValueRejoined ==
    Parsed =>
        \A i \in LastOfKey :
            /\ KeyOf(i) \in StringKeys =>
                   /\ StringField(KeyOf(i)) = Some(Strip(OriginalValue(i)))
                   /\ CountSep(StringField(KeyOf(i))[1]) = CountSep(OriginalValue(i))
            /\ Join(":", Split(":", OriginalValue(i))) = OriginalValue(i)
            /\ Split(":", OriginalLine(i)) = string_table[i]

\* a timestamp with two separators in it, split by the check engine into
\* three fields, whole in the snapshot
C13_Witness ==
    /\ Parsed
    /\ \E i \in LastOfKey :
          /\ KeyOf(i) = K("AntivirusSignatureLastUpdated")
          /\ Len(string_table[i]) = 4
          /\ CountSep(OriginalValue(i)) = 2
    /\ StampAt(2) = Some(Stamp(25, ".", 2, 2021, " ", 22, 37, 8))

\* the value the agent section gives a key: Some(value of its last line),
\* or None when no line has the key
RECURSIVE ValueUpTo(_, _)
ValueUpTo(key, i) ==
    IF i = 0 THEN None
    ELSE IF Len(string_table[i]) >= 2 /\ KeyOf(i) = K(key)
    THEN Some(Strip(OriginalValue(i)))
    ELSE ValueUpTo(key, i - 1)

RawValue(key) == ValueUpTo(key, Len(string_table))

BoolKeys ==
    { "AMServiceEnabled", "BehaviorMonitorEnabled", "AntispywareEnabled",
      "AntivirusEnabled", "NISEnabled", "RealTimeProtectionEnabled",
      "OnAccessProtectionEnabled", "IsTamperProtected", "IsVirtualMachine" }

\* the snapshot field that holds the tri-state value of a key
BoolField(key) ==
    CASE key = "AMServiceEnabled"          -> section[1].am_service_enabled
      [] key = "BehaviorMonitorEnabled"    -> section[1].behavior_monitor_enabled
      [] key = "AntispywareEnabled"        -> section[1].antispyware_enabled
      [] key = "AntivirusEnabled"          -> section[1].antivirus_enabled
      [] key = "NISEnabled"                -> section[1].nis_enabled
      [] key = "RealTimeProtectionEnabled" -> section[1].realtime_protection_enabled
      [] key = "OnAccessProtectionEnabled" -> section[1].onaccess_protection_enabled
      [] key = "IsTamperProtected"         -> section[1].is_tamper_protected
      [] key = "IsVirtualMachine"          -> section[1].is_virtual_machine

\* the findings of the service sub-check that name service i
NamingService(i) ==
    SelectSeq(At(4), LAMBDA f : Len(f.summary) >= 2 /\ f.summary[2] = S(ServiceName(i)))

\* C14: a boolean field of the snapshot is true exactly for the value
\* "True", false exactly for the value "False" and unknown for every other
\* value, the empty value and the absent key included; a service whose
\* value is unknown is reported to be unknown and never to be disabled.
C14_TriStateBooleans ==
    /\ Parsed =>
          \A key \in BoolKeys :
              LET value == RawValue(key)
              IN  /\ (BoolField(key) = Some(TRUE)) <=> (value = Some(K("True")))
                  /\ (BoolField(key) = Some(FALSE)) <=> (value = Some(K("False")))
                  /\ (BoolField(key) = None) <=>
                         (value \notin { Some(K("True")), Some(K("False")) })
    /\ ServicesDone =>
          \A i \in AllServices :
              RawValue(ServiceKey(i)) \notin { Some(K("True")), Some(K("False")) } =>
                  NamingService(i) = << UnknownFinding(i) >>

\* the service sub-check has run on a section without the NISEnabled line
\* and with the value "true" for OnAccessProtectionEnabled: both services
\* are reported unknown, beside services read as true
C14_Witness ==
    /\ ServicesDone
    /\ RawValue("NISEnabled") = None /\ section[1].nis_enabled = None
    /\ RawValue("OnAccessProtectionEnabled") = Some(K("true"))
    /\ section[1].onaccess_protection_enabled = None
    /\ section[1].am_service_enabled = Some(TRUE)
    /\ section[1].is_tamper_protected = Some(FALSE)
    /\ Len(WithState(At(4), "UNKNOWN")) = 2

\* the v2 parser has just returned, a snapshot or the no-data result
ParserReturned == plugin = "v2" /\ pc \in { "nodata", "signature_ages" }

\* the keys that occur on several lines, and the first and the last line
\* of a key
Recurring == { KeyOf(i) : i \in { j \in Keyed : \E l \in Keyed : l # j /\ KeyOf(l) = KeyOf(j) } }
FirstLineOf(key) == CHOOSE i \in Keyed : KeyOf(i) = key /\ \A j \in Keyed : KeyOf(j) = key => i <= j
LastLineOf(key) == CHOOSE i \in Keyed : KeyOf(i) = key /\ \A j \in Keyed : KeyOf(j) = key => j <= i

\* the tri-state reading of a value
TriState(value) ==
    CASE value = K("True")  -> Some(TRUE)
      [] value = K("False") -> Some(FALSE)
      [] OTHER              -> None

\* C15: when a key occurs on several lines the parser returns a snapshot,
\* and the snapshot holds for that key the value of its last line.
C15_LastOccurrenceWins ==
    (ParserReturned /\ Recurring # {}) =>
        /\ section # None /\ pc = "signature_ages"
        /\ \A key \in Recurring :
               LET last == Strip(OriginalValue(LastLineOf(key)))
               IN  /\ key \in StringKeys => StringField(key) = Some(last)
                   /\ key \in { K(b) : b \in BoolKeys } =>
                          BoolField(key[1].v) = TriState(last)

\* a section in which the engine version, a timestamp and two service
\* states recur with other values: the snapshot holds the later ones
C15_Witness ==
    /\ Parsed
    /\ { K("AMEngineVersion"), K("NISEnabled"), K("AntivirusSignatureLastUpdated") }
           \subseteq Recurring
    /\ Strip(OriginalValue(FirstLineOf(K("AMEngineVersion")))) = K("1.1.17800.5")
    /\ section[1].am_engine_version = Some(K("1.1.18000.1"))
    /\ Strip(OriginalValue(FirstLineOf(K("NISEnabled")))) = K("False")
    /\ section[1].nis_enabled = Some(TRUE)
    /\ StampAt(2) = Some(Stamp(27, ".", 2, 2021, " ", 22, 37, 8))

\* C16 as stated: the parser returns the no-data result when the sequence
\* of lines is empty and a snapshot for every sequence that is not empty.
C16_SnapshotUnlessEmpty ==
    ParserReturned => ((section = None) <=> (string_table = << >>))

\* C16 amended: the parser returns the no-data result when the sequence
\* of lines is empty or none of its lines has two fields or more, and a
\* snapshot for every sequence with a line of two fields or more.
C16_SnapshotUnlessNoPair ==
    ParserReturned =>
        /\ (section = None) <=> (Keyed = {})
        /\ (pc = "nodata") <=> (section = None)
        /\ string_table = << >> => section = None

\* a section of lines without a separator: not empty, and no data
C16_Witness ==
    /\ ParserReturned
    /\ string_table # << >> /\ Keyed = {}
    /\ section = None /\ pc = "nodata"

\* C17: check_windows_defender of the v2 plugin never ends by an
\* exception, and once it is done every signature has exactly one finding,
\* every configured scan has exactly one finding, every service that is
\* not in its expected state is named by exactly one finding and the
\* service sub-check has yielded a finding, whatever fields are missing,
\* unparseable or malformed and whatever optional parameters are omitted.
C17_NoFatalError ==
    /\ plugin = "v2" => pc # "raised"
    /\ CheckDone =>
          /\ \A k \in SignaturePlaces : Len(Results(At(k))) = 1
          /\ \A k \in ScanPlaces : Configured(k) => Len(Results(At(k))) = 1
          /\ \A i \in AllServices : ServiceConforms(i) \/ Len(NamingService(i)) = 1
          /\ At(4) # << >>

\* a finished run on a section with an unparseable signature timestamp
\* and a service without a line: both are reported unknown, the other
\* signatures carry their metrics and the version notices close the output
C17_Witness ==
    /\ CheckDone
    /\ \E k \in SignaturePlaces : Truthy(StampAt(k)) /\ Parsing(k) = {}
                                   /\ Results(At(k))[1].state = "UNKNOWN"
    /\ \E i \in AllServices : RawValue(ServiceKey(i)) = None
                               /\ NamingService(i) = << UnknownFinding(i) >>
    /\ Cardinality({ k \in SignaturePlaces : Metrics(At(k)) # << >> }) = 2
    /\ At(7) # << >>

\* C18: in the legacy plugin parse_windows_defender completes when one of
\* the five timestamp keys is absent from the section, and
\* check_windows_defender completes when a service key or a version key is
\* absent or a service value is neither "True" nor "False": no run of the
\* legacy plugin ends by an exception.
C18_LegacyNeverAborts ==
    plugin = "legacy" => pc # "raised"

\* the age of the timestamp of place k read month-first and day-first
\* with AM/PM: Some(age), or None when the string is not valid that way
ReadAs(k, layout) ==
    IF ~Truthy(StampAt(k)) THEN None
    ELSE LET t == StrpTime(Strip(StampAt(k)[1]), layout)
         IN  IF t = None THEN None ELSE Some(now - Mktime(t[1]))

MonthFirst(k) == ReadAs(k, << "%m", "/", "%d", "/", "%Y", " ", "%I", ":", "%M", ":", "%S", " ", "%p" >>)
DayFirst(k) == ReadAs(k, << "%d", "/", "%m", "/", "%Y", " ", "%I", ":", "%M", ":", "%S", " ", "%p" >>)

InTolerance(reading) == reading # None /\ reading[1] >= -86400

\* the age reported for place k: Some(value of its metric), or None when
\* the place has no metric of a parsed age
ReportedAge(k) == IF AgeReported(k) THEN Some(Metrics(At(k))[1].value) ELSE None

\* C19: with date format eu a timestamp with slashes and AM/PM is read
\* month-first whenever that reading is valid and not more than one day
\* ahead of the evaluation time; the day-first reading is used exactly
\* when the month-first reading is invalid or more than one day ahead and
\* the day-first reading is valid and not more than one day ahead, and no
\* age is reported when neither reading qualifies.
C19_MonthFirstUnlessFuture ==
    \A k \in AgePlaces :
        ( /\ StepDone(k) /\ ActiveFormat = "eu"
          /\ (k \in ScanPlaces => Configured(k))
          /\ (MonthFirst(k) # None \/ DayFirst(k) # None) ) =>
            ReportedAge(k) = IF InTolerance(MonthFirst(k)) THEN MonthFirst(k)
                             ELSE IF InTolerance(DayFirst(k)) THEN DayFirst(k)
                             ELSE None

\* format eu at 28.02.2021 22:37:08, the timestamp 05/02/2021 10:00:00 PM:
\* valid both ways, 2 May read month-first lies ahead, and the age
\* reported is the one of 5 February
C19_Witness ==
    /\ SignaturesDone /\ ActiveFormat = "eu"
    /\ StampAt(1) = Some(AmPm(Stamp(5, "/", 2, 2021, " ", 10, 0, 0), "PM"))
    /\ MonthFirst(1) # None /\ MonthFirst(1)[1] < -86400
    /\ DayFirst(1) # None
    /\ ReportedAge(1) = DayFirst(1)
    /\ ReportedAge(1) = Some(now - Mktime([ year |-> 2021, month |-> 2, day |-> 5,
                                             hour |-> 22, minute |-> 0, second |-> 0 ]))

\* the scan types whose entry is the no-levels value
NoLevels(k) == Configured(k) /\ params[KeyAt(k)] = << "no_levels", None >>

\* the finding of a scan that never ran, naming the fallback thresholds
NeverExecutedFallback(k) ==
    Result("CRIT",
           << S(LabelAt(k)), S(" has never been executed "), S("(warn/crit at "),
              N(7), S(" "), S("days"), S(" "), N(0), S(" "), S("hours"), S("/"),
              N(14), S(" "), S("days"), S(" "), N(0), S(" "), S("hours"), S(")") >>)

\* C20: a scan type whose entry is ("no_levels", None) is not skipped:
\* without a readable timestamp it yields the crit finding naming the
\* fallback thresholds of 7 and 14 days and the zero metric, and with a
\* readable timestamp an ok finding and the metric of the age, whatever
\* the age.
C20_NoLevelsNotSkipped ==
    \A k \in ScanPlaces :
        (ScansDone /\ NoLevels(k)) =>
            /\ Accepted(k) = {} =>
                   At(k) = << NeverExecutedFallback(k), Metric(MetricNameAt(k), 0, None) >>
            /\ Accepted(k) # {} =>
                   /\ Len(At(k)) = 2
                   /\ At(k)[1].type = "Result" /\ At(k)[1].state = "OK"
                   /\ At(k)[2] = Metric(MetricNameAt(k),
                                        Reading(k, First(Accepted(k)))[1], None)

\* the full scan under ("no_levels", None) with a timestamp seven days
\* old: an ok finding and the metric 604800
C20_Witness ==
    /\ ScansDone /\ NoLevels(5)
    /\ Accepted(5) # {}
    /\ Len(At(5)) = 2 /\ At(5)[1].state = "OK"
    /\ At(5)[2] = Metric("full_scan_age", 7 * 86400, None)

====
